---------------------------- MODULE Spec2Model ----------------------------
(***************************************************************************)
(* The technical-analysis transforms of src/stock_predictor_agent.py:      *)
(* calculate_moving_average, calculate_volatility, predict_trend,          *)
(* analyze_support_resistance and analyze_price_movement.                  *)
(*                                                                         *)
(* Each transform is a pure function from a JSON text and one integer      *)
(* parameter to a JSON result.  The state is the argument `prices` (the    *)
(* value json.loads gives for it, or the fact that it does not parse),     *)
(* and the transform, parameter and result of the latest call.             *)
(*                                                                         *)
(* Numbers.  Prices are held in cents (1/100 of the currency unit), so     *)
(* round(x, 2) is rounding to an integer.  Arithmetic is exact rational    *)
(* arithmetic by cross-multiplication; the rounding error of IEEE doubles  *)
(* is not modelled, and round() is round-half-to-even on the exact value.  *)
(* The free-text fields of the results (explanation, prediction,           *)
(* signal_explanation, risk_explanation), which are templated from the     *)
(* modelled fields, are left out of the results.                           *)
(***************************************************************************)
EXTENDS Integers, Sequences, FiniteSets, TLC

VARIABLES prices, tool, param, result

vars == <<prices, tool, param, result>>

(***************************************************************************)
(* Bounds of the model.                                                    *)
(***************************************************************************)
MaxLen == 3        \* longest record sequence of the malformed-input family
MaxParam == 3      \* largest window / forecast_days / days_back tried
MaxCloses == 5     \* longest series of the closes family
MaxFill == 10      \* most filler points between first and last (levels family)
MaxExplain == 3    \* longest series of the explainer family

(***************************************************************************)
(* Program constants.                                                      *)
(***************************************************************************)
LowVolatility == 5          \* volatility < 5 -> LOW
MediumVolatility == 15      \* volatility < 15 -> MEDIUM
LevelWindow == 10           \* highs[-10:], lows[-10:]
LevelCount == 3             \* [-3:], [:3]
RecentCloses == 3           \* closes[-3:]
VolumeConfidenceCap == 85   \* min(85, ...)
VolumeConfidenceScale == 30 \* int(volume_spike * 30)
NewsConfidence == 70
BounceConfidence == 65
RangeConfidence == 55

Cents == 100                \* two decimal places: round(x, 2)

(***************************************************************************)
(* JSON values.  A field value is a number (in cents; a volume in units),  *)
(* a string, null, or absent from the record.                              *)
(***************************************************************************)
Num(v) == [t |-> "num", v |-> v]
Str == [t |-> "str", v |-> 0]
Null == [t |-> "null", v |-> 0]
Missing == [t |-> "missing", v |-> 0]

IsNum(f) == f.t = "num"

\* One element of the record sequence: a JSON object with the five fields,
\* or something that is not an object (isdict = FALSE).
Point(o, h, l, c, v) ==
    [isdict |-> TRUE, open |-> o, high |-> h, low |-> l, close |-> c, volume |-> v]

NotADict ==
    [isdict |-> FALSE, open |-> Missing, high |-> Missing, low |-> Missing,
     close |-> Missing, volume |-> Missing]

Field(item, key) ==
    CASE key = "open" -> item.open
      [] key = "high" -> item.high
      [] key = "low" -> item.low
      [] key = "close" -> item.close
      [] key = "volume" -> item.volume

\* The documents json.loads can give.
\*   kind "invalid": the text is not JSON (json.loads raises)
\*   kind "scalar" : a number or null
\*   kind "list"   : the bare record sequence
\*   kind "object" : a JSON object; hasdata says whether it has the key
\*                   "data", and inner/items are the value under that key
Invalid == [kind |-> "invalid", hasdata |-> FALSE, inner |-> "scalar", items |-> <<>>]
Scalar == [kind |-> "scalar", hasdata |-> FALSE, inner |-> "scalar", items |-> <<>>]
Bare(s) == [kind |-> "list", hasdata |-> FALSE, inner |-> "list", items |-> s]
Envelope(s) == [kind |-> "object", hasdata |-> TRUE, inner |-> "list", items |-> s]
EnvelopeOfScalar == [kind |-> "object", hasdata |-> TRUE, inner |-> "scalar", items |-> <<>>]
ObjectNoData == [kind |-> "object", hasdata |-> FALSE, inner |-> "scalar", items |-> <<>>]

(***************************************************************************)
(* Evaluation outcomes: a value, or a raised exception with its message.   *)
(***************************************************************************)
Ok(v) == [raised |-> FALSE, msg |-> "", val |-> v]
Raise(m) == [raised |-> TRUE, msg |-> m, val |-> <<>>]

JSONDecodeError == "Expecting value"
NotIterable == "object is not iterable"
StringIndices == "string indices must be integers"
UnsupportedOperand == "unsupported operand type(s)"
DivisionByZero == "division by zero"
IndexOutOfRange == "list index out of range"
Unhashable == "unhashable type: 'slice'"
KeyErrorOf(key) == "'" \o key \o "'"

\* try: ... except Exception as e: return json.dumps({"error": str(e), "status": "failed"})
TrapLeaky(r) ==
    IF r.raised
    THEN IF r.msg = DivisionByZero \/ r.msg = IndexOutOfRange
         THEN [status |-> "raised", error |-> r.msg]
         ELSE [status |-> "failed", error |-> r.msg]
    ELSE r.val

Trap(r) == IF r.raised THEN [status |-> "failed", error |-> r.msg] ELSE r.val

\* json.loads(prices)
loads(p) == IF p.kind = "invalid" THEN Raise(JSONDecodeError) ELSE Ok(p)

\* if isinstance(data, dict) and "data" in data: data = data["data"]
UnwrapNever(data) == data

Unwrap(data) ==
    IF data.kind = "object" /\ data.hasdata
    THEN [kind |-> data.inner, hasdata |-> FALSE, inner |-> data.inner, items |-> data.items]
    ELSE data

(***************************************************************************)
(* Python sequence helpers.                                                *)
(***************************************************************************)
Min2(a, b) == IF a < b THEN a ELSE b
Max2(a, b) == IF a > b THEN a ELSE b
Abs(a) == IF a < 0 THEN -a ELSE a

\* s[a:b] with Python's treatment of negative and out-of-range indices
PyIndex(i, n) == IF i < 0 THEN Max2(i + n, 0) ELSE Min2(i, n)
PySlice(s, a, b) == SubSeq(s, PyIndex(a, Len(s)) + 1, PyIndex(b, Len(s)))
PyTail(s, k) == PySlice(s, -k, Len(s))      \* s[-k:]
PyHead(s, k) == PySlice(s, 0, k)            \* s[:k]

AllNum(s) == \A i \in 1..Len(s) : IsNum(s[i])
Values(s) == [i \in 1..Len(s) |-> s[i].v]

RECURSIVE Sum(_)
Sum(s) == IF Len(s) = 0 THEN 0 ELSE s[1] + Sum(Tail(s))

SeqMin(s) == CHOOSE m \in {s[i] : i \in 1..Len(s)} : \A j \in 1..Len(s) : m <= s[j]
SeqMax(s) == CHOOSE m \in {s[i] : i \in 1..Len(s)} : \A j \in 1..Len(s) : m >= s[j]

\* round(a / b) to the nearest integer, ties to even (b # 0)
RoundDivPos(a, b) ==
    LET q == a \div b
        r == a % b
    IN  IF 2 * r < b THEN q
        ELSE IF 2 * r > b THEN q + 1
        ELSE IF q % 2 = 0 THEN q ELSE q + 1

RoundDiv(a, b) == IF b > 0 THEN RoundDivPos(a, b) ELSE RoundDivPos(-a, -b)

\* [item[key] for item in data]
Column(data, key) ==
    IF data.kind = "scalar" THEN Raise(NotIterable)
    ELSE IF data.kind = "object" THEN Raise(StringIndices)
    ELSE LET s == data.items
             bad == {i \in 1..Len(s) : ~s[i].isdict \/ Field(s[i], key).t = "missing"}
         IN  IF bad = {} THEN Ok([i \in 1..Len(s) |-> Field(s[i], key)])
             ELSE LET first == CHOOSE i \in bad : \A j \in bad : i <= j
                  IN  IF ~s[first].isdict THEN Raise(StringIndices)
                      ELSE Raise(KeyErrorOf(key))

(***************************************************************************)
(* calculate_moving_average(prices, window)                                *)
(***************************************************************************)
\* sum(closes[i:i+window]) / window, rounded, of the last loop iteration
WindowOf(closes, i, window) == PySlice(closes, i, i + window)

LastWindow(closes, window) == WindowOf(closes, Len(closes) - window, window)

TrendOf(current_price, current_ma) ==
    IF current_price > current_ma THEN "BULLISH" ELSE "BEARISH"

\* if len(closes) < window
NotEnoughOffByOne(n, window) == n < window - 1

NotEnough(n, window) == n < window

MovingAverageBody(p, window) ==
    LET parsed == loads(p) IN
    IF parsed.raised THEN parsed ELSE
    LET col == Column(Unwrap(parsed.val), "close") IN
    IF col.raised THEN col ELSE
    LET closes == col.val
        n == Len(closes)
    IN
    IF NotEnough(n, window)
    THEN Ok([status |-> "failed", error |-> "Not enough data points"])
    ELSE IF window = 0 THEN Raise(DivisionByZero)
    ELSE IF \E i \in 0..(n - window) : ~AllNum(WindowOf(closes, i, window))
    THEN Raise(UnsupportedOperand)
    \* closes[-1] of no closes, moving_avgs[-1] of no averages
    ELSE IF n = 0 \/ n - window + 1 <= 0 THEN Raise(IndexOutOfRange)
    ELSE IF ~IsNum(closes[n]) THEN Raise(UnsupportedOperand)
    ELSE
    LET current_price == closes[n].v
        current_ma == RoundDiv(Sum(Values(LastWindow(closes, window))), window)
    IN  Ok([status |-> "success",
            current_price |-> current_price,
            average_price |-> current_ma,
            trend |-> TrendOf(current_price, current_ma)])

calculate_moving_average(p, window) == Trap(MovingAverageBody(p, window))

(***************************************************************************)
(* calculate_volatility(prices)                                            *)
(***************************************************************************)
\* sum((x - mean) ** 2 for x in closes) / len(closes), times n^3 to stay in
\* the integers: (x - S/n)^2 = (n*x - S)^2 / n^2
ScaledVariance(xs) ==
    LET n == Len(xs)
        S == Sum(xs)
    IN  Sum([i \in 1..n |-> (n * xs[i] - S) * (n * xs[i] - S)])

\* volatility < limit, volatility = variance ** 0.5 in currency units
VolatilityBelow(xs, limit) ==
    LET n == Len(xs)
    IN  ScaledVariance(xs) \div (n * n * n) < (limit * Cents) * (limit * Cents)

\* volatility <= limit
VolatilityAtMost(xs, limit) ==
    LET n == Len(xs)
    IN  \/ VolatilityBelow(xs, limit)
        \/ /\ ScaledVariance(xs) % (n * n * n) = 0
           /\ ScaledVariance(xs) \div (n * n * n) = (limit * Cents) * (limit * Cents)

RiskLevelInclusive(xs) ==
    IF VolatilityAtMost(xs, LowVolatility) THEN "LOW"
    ELSE IF VolatilityAtMost(xs, MediumVolatility) THEN "MEDIUM"
    ELSE "HIGH"

RiskLevel(xs) ==
    IF VolatilityBelow(xs, LowVolatility) THEN "LOW"
    ELSE IF VolatilityBelow(xs, MediumVolatility) THEN "MEDIUM"
    ELSE "HIGH"

VolatilityBody(p) ==
    LET parsed == loads(p) IN
    IF parsed.raised THEN parsed ELSE
    LET col == Column(Unwrap(parsed.val), "close") IN
    IF col.raised THEN col ELSE
    LET closes == col.val
        n == Len(closes)
    IN
    IF ~AllNum(closes) THEN Raise(UnsupportedOperand)
    ELSE IF n = 0 THEN Raise(DivisionByZero)
    ELSE IF \E i \in 1..(n - 1) : closes[i].v = 0 THEN Raise(DivisionByZero)
    ELSE
    LET xs == Values(closes)
    IN  Ok([status |-> "success",
            risk_level |-> RiskLevel(xs),
            price_range |-> [lowest |-> SeqMin(xs),
                             highest |-> SeqMax(xs),
                             current |-> xs[n]]])

calculate_volatility(p) == Trap(VolatilityBody(p))

(***************************************************************************)
(* predict_trend(prices, forecast_days)                                    *)
(***************************************************************************)
\* n times the code's numerator and denominator; the slope is their ratio
RegressionNumerator(ys) ==
    LET n == Len(ys)
    IN  n * Sum([i \in 1..n |-> (i - 1) * ys[i]])
          - Sum([i \in 1..n |-> i - 1]) * Sum(ys)

RegressionDenominator(n) ==
    n * Sum([i \in 1..n |-> (i - 1) * (i - 1)])
      - Sum([i \in 1..n |-> i - 1]) * Sum([i \in 1..n |-> i - 1])

\* slope * (n + i - 1) + intercept, intercept = y_mean - slope * x_mean, as
\* the fraction <<numerator, denominator>>; slope = 0 when the denominator is 0
ForecastFraction(ys, i) ==
    LET n == Len(ys)
        num == RegressionNumerator(ys)
        den == RegressionDenominator(n)
    IN  IF den = 0 THEN <<Sum(ys), n>>
        ELSE <<2 * den * Sum(ys) + n * num * (n + 2 * i - 1), 2 * n * den>>

\* forecast.append(round(predicted_price, 2))
Forecast(ys, i) == RoundDiv(ForecastFraction(ys, i)[1], ForecastFraction(ys, i)[2])

DirectionOfForecast(ys, forecast) ==
    IF forecast > ys[Len(ys)] THEN "UP" ELSE "DOWN"

DirectionOf(ys, forecast) ==
    IF RegressionDenominator(Len(ys)) # 0 /\ RegressionNumerator(ys) > 0
    THEN "UP" ELSE "DOWN"

PredictBody(p, forecast_days) ==
    LET parsed == loads(p) IN
    IF parsed.raised THEN parsed ELSE
    LET col == Column(Unwrap(parsed.val), "close") IN
    IF col.raised THEN col ELSE
    LET closes == col.val
        n == Len(closes)
    IN
    IF n = 0 THEN Raise(DivisionByZero)
    ELSE IF ~AllNum(closes) THEN Raise(UnsupportedOperand)
    ELSE IF forecast_days < 1 THEN Raise(IndexOutOfRange)
    ELSE IF closes[n].v = 0 THEN Raise(DivisionByZero)
    ELSE
    LET ys == Values(closes)
        current_price == ys[n]
        predicted_price == Forecast(ys, forecast_days)
    IN  Ok([status |-> "success",
            current_price |-> current_price,
            predicted_price |-> predicted_price,
            direction |-> DirectionOf(ys, predicted_price),
            \* in 1/100 of a percent
            change_percent |->
                RoundDiv((predicted_price - current_price) * 100 * Cents, current_price)])

predict_trend(p, forecast_days) == Trap(PredictBody(p, forecast_days))

(***************************************************************************)
(* analyze_support_resistance(prices)                                      *)
(***************************************************************************)
RECURSIVE SortSet(_)
\* sorted(set(...)) of numbers
SortSet(S) ==
    IF S = {} THEN <<>>
    ELSE LET m == CHOOSE x \in S : \A y \in S : x <= y
         IN  <<m>> \o SortSet(S \ {m})

Elements(s) == {s[i] : i \in 1..Len(s)}

\* sorted() compares the distinct values: it raises on a string or null
\* unless that is the only value
Sortable(s) == AllNum(s) \/ Cardinality(Elements(s)) <= 1

LevelTailAll(s) == s

LevelTailBeforeLast(s) ==
    LET t == IF Len(s) >= LevelWindow THEN PyTail(s, LevelWindow) ELSE s
    IN  IF Len(t) > 1 THEN PyHead(t, Len(t) - 1) ELSE t

LevelTail(s) == IF Len(s) >= LevelWindow THEN PyTail(s, LevelWindow) ELSE s

ResistanceLevels(highs) == PyTail(SortSet(Elements(Values(LevelTail(highs)))), LevelCount)

SupportLevels(lows) == PyHead(SortSet(Elements(Values(LevelTail(lows)))), LevelCount)

SignalOf(current_price, floor, ceiling) ==
    IF current_price < floor THEN "BUY"
    ELSE IF current_price > ceiling THEN "SELL"
    ELSE "HOLD"

SupportResistanceBody(p) ==
    LET parsed == loads(p) IN
    IF parsed.raised THEN parsed ELSE
    LET data == Unwrap(parsed.val)
        hcol == Column(data, "high")
    IN
    IF hcol.raised THEN hcol ELSE
    LET lcol == Column(data, "low") IN
    IF lcol.raised THEN lcol ELSE
    LET ccol == Column(data, "close") IN
    IF ccol.raised THEN ccol ELSE
    LET highs == hcol.val
        lows == lcol.val
        closes == ccol.val
        n == Len(closes)
    IN
    IF ~Sortable(LevelTail(highs)) \/ ~Sortable(LevelTail(lows))
    THEN Raise(UnsupportedOperand)
    ELSE IF n = 0 THEN Raise(IndexOutOfRange)
    ELSE IF ~IsNum(closes[n]) \/ ~AllNum(LevelTail(highs)) \/ ~AllNum(LevelTail(lows))
    THEN Raise(UnsupportedOperand)
    ELSE
    LET resistance_levels == ResistanceLevels(highs)
        support_levels == SupportLevels(lows)
        current_price == closes[n].v
    IN  Ok([status |-> "success",
            floor_price |-> SeqMin(support_levels),
            ceiling_price |-> SeqMax(resistance_levels),
            current_price |-> current_price,
            signal |-> SignalOf(current_price, SeqMin(support_levels),
                                SeqMax(resistance_levels))])

analyze_support_resistance(p) == Trap(SupportResistanceBody(p))

(***************************************************************************)
(* analyze_price_movement(prices, days_back)                               *)
(***************************************************************************)
\* recent_data = data[-days_back:] if len(data) >= days_back else data
Recent(s, days_back) ==
    IF Len(s) >= days_back THEN PyTail(s, days_back) ELSE s

\* volume_spike = max(volumes) / avg_volume if avg_volume > 0 else 1, as the
\* fraction <<numerator, denominator>> with a positive denominator
VolumeSpike(volumes) ==
    IF Sum(volumes) > 0
    THEN <<SeqMax(volumes) * Len(volumes), Sum(volumes)>>
    ELSE <<1, 1>>

\* spike > a / b
SpikeAbove(spike, a, b) == spike[1] * b > a * spike[2]

\* (price_change / closes[0]) * 100 > k, and < k
PctAbove(price_change, first, k) ==
    IF first > 0 THEN price_change * 100 > k * first
    ELSE price_change * 100 < k * first

PctBelow(price_change, first, k) ==
    IF first > 0 THEN price_change * 100 < k * first
    ELSE price_change * 100 > k * first

\* min(85, int(volume_spike * 30))
VolumeConfidence(spike) ==
    Min2(VolumeConfidenceCap, (VolumeConfidenceScale * spike[1]) \div spike[2])

\* abs(closes[-1] - closes[-2]) > volatility * 0.3 if len(closes) > 1 else False
Gap(closes, volatility) ==
    IF Len(closes) > 1
    THEN 10 * Abs(closes[Len(closes)] - closes[Len(closes) - 1]) > 3 * volatility
    ELSE FALSE

\* Alibi 1.  signals: high_volume, price_up / price_down, gap_up / gap_down,
\* sustained_move
VolumeEmitted(spike) == SpikeAbove(spike, 3, 2)

VolumeAlibi(closes, spike, volatility) ==
    LET price_change == closes[Len(closes)] - closes[1]
    IN  IF price_change > 0
        THEN [rank |-> 1, title |-> "Bullish Volume Surge",
              signals |-> <<TRUE, TRUE, Gap(closes, volatility),
                            PctAbove(price_change, closes[1], 2)>>,
              confidence |-> VolumeConfidence(spike)]
        ELSE [rank |-> 1, title |-> "Panic Selling / Distribution",
              signals |-> <<TRUE, TRUE, Gap(closes, volatility),
                            PctBelow(price_change, closes[1], -2)>>,
              confidence |-> VolumeConfidence(spike)]

\* Alibi 2: volatility > sum(highs[i] - lows[i]) / len(highs) * 1.5
NewsEmitted(highs, lows, volatility) ==
    2 * Len(highs) * volatility
        > 3 * Sum([i \in 1..Len(highs) |-> highs[i] - lows[i]])

NewsAlibi ==
    [rank |-> 2, title |-> "News Event / Earnings",
     signals |-> <<TRUE, TRUE, TRUE, TRUE>>,
     confidence |-> NewsConfidence]

\* Alibi 3.  signals: touched_*, bounced_up / rejected_down, volume_on_*,
\* recovery_move / breakdown_move; all TRUE for the range-bound variant
LevelAlibi(closes, spike) ==
    LET n == Len(closes)
        price_change == closes[n] - closes[1]
        recent == IF n >= RecentCloses THEN PyTail(closes, RecentCloses) ELSE closes
        recent_low == SeqMin(recent)
        recent_high == SeqMax(recent)
    IN  IF price_change > 0 /\ closes[n] > recent_low
        THEN [rank |-> 3, title |-> "Support Bounce",
              signals |-> <<TRUE, TRUE, SpikeAbove(spike, 6, 5),
                            PctAbove(price_change, closes[1], 1)>>,
              confidence |-> BounceConfidence]
        ELSE IF price_change < 0 /\ closes[n] < recent_high
        THEN [rank |-> 3, title |-> "Resistance Rejection",
              signals |-> <<TRUE, TRUE, SpikeAbove(spike, 6, 5),
                            PctBelow(price_change, closes[1], -1)>>,
              confidence |-> BounceConfidence]
        ELSE [rank |-> 3, title |-> "Range-bound Movement",
              signals |-> <<TRUE, TRUE, TRUE, TRUE>>,
              confidence |-> RangeConfidence]

\* alibis.sort(key=lambda x: x["confidence"], reverse=True): a stable sort
InsertUnstable(sorted, a) ==
    LET before == {i \in 1..Len(sorted) : sorted[i].confidence > a.confidence}
        k == Cardinality(before)
    IN  SubSeq(sorted, 1, k) \o <<a>> \o SubSeq(sorted, k + 1, Len(sorted))

InsertByConfidence(sorted, a) ==
    LET before == {i \in 1..Len(sorted) : sorted[i].confidence >= a.confidence}
        k == Cardinality(before)
    IN  SubSeq(sorted, 1, k) \o <<a>> \o SubSeq(sorted, k + 1, Len(sorted))

RECURSIVE SortByConfidenceFrom(_, _)
SortByConfidenceFrom(sorted, rest) ==
    IF Len(rest) = 0 THEN sorted
    ELSE SortByConfidenceFrom(InsertByConfidence(sorted, rest[1]), Tail(rest))

SortByConfidence(alibis) == SortByConfidenceFrom(<<>>, alibis)

Alibis(closes, volumes, highs, lows) ==
    LET spike == VolumeSpike(volumes)
        volatility == SeqMax(highs) - SeqMin(lows)
    IN  (IF VolumeEmitted(spike) THEN <<VolumeAlibi(closes, spike, volatility)>> ELSE <<>>)
        \o (IF NewsEmitted(highs, lows, volatility) THEN <<NewsAlibi>> ELSE <<>>)
        \o (IF Len(closes) > 1 THEN <<LevelAlibi(closes, spike)>> ELSE <<>>)

PriceMovementBody(p, days_back) ==
    LET parsed == loads(p) IN
    IF parsed.raised THEN parsed ELSE
    LET data == Unwrap(parsed.val) IN
    IF data.kind = "scalar" THEN Raise(NotIterable)
    \* an object without "data" has its two keys symbol and period_days:
    \* data[-days_back:] cannot slice it, and iterating it gives its keys
    ELSE IF data.kind = "object"
    THEN (IF 2 >= days_back THEN Raise(Unhashable) ELSE Raise(StringIndices))
    ELSE
    LET recent_data == [data EXCEPT !.items = Recent(data.items, days_back)]
        ccol == Column(recent_data, "close")
    IN
    IF ccol.raised THEN ccol ELSE
    LET vcol == Column(recent_data, "volume") IN
    IF vcol.raised THEN vcol ELSE
    LET hcol == Column(recent_data, "high") IN
    IF hcol.raised THEN hcol ELSE
    LET lcol == Column(recent_data, "low") IN
    IF lcol.raised THEN lcol ELSE
    LET n == Len(ccol.val) IN
    IF n = 0 THEN Raise(IndexOutOfRange)
    ELSE IF ~IsNum(ccol.val[n]) \/ ~IsNum(ccol.val[1]) THEN Raise(UnsupportedOperand)
    ELSE IF ccol.val[1].v = 0 THEN Raise(DivisionByZero)
    ELSE IF ~AllNum(vcol.val) \/ ~AllNum(hcol.val) \/ ~AllNum(lcol.val)
    THEN Raise(UnsupportedOperand)
    ELSE IF n > 1 /\ ~AllNum(PyTail(ccol.val, RecentCloses))
    THEN Raise(UnsupportedOperand)
    ELSE
    LET closes == Values(ccol.val)
        volumes == Values(vcol.val)
        highs == Values(hcol.val)
        lows == Values(lcol.val)
        price_change == closes[n] - closes[1]
        spike == VolumeSpike(volumes)
    IN  Ok([status |-> "success",
            alibis |-> SortByConfidence(Alibis(closes, volumes, highs, lows)),
            context |->
                [period_days |-> days_back,
                 price_change |-> price_change,
                 \* in 1/100 of a percent
                 price_change_pct |-> RoundDiv(price_change * 100 * Cents, closes[1]),
                 \* in 1/100
                 volume_spike_ratio |-> RoundDiv(spike[1] * Cents, spike[2]),
                 volatility_range |-> SeqMax(highs) - SeqMin(lows),
                 current_price |-> closes[n],
                 starting_price |-> closes[1]]])

analyze_price_movement(p, days_back) == Trap(PriceMovementBody(p, days_back))

(***************************************************************************)
(* Inputs of the malformed-input family: every kind of document, and       *)
(* record sequences over well-formed and malformed records.                *)
(***************************************************************************)
Good == Point(Num(1000), Num(1100), Num(900), Num(1000), Num(3))
ZeroClose == Point(Num(0), Num(100), Num(0), Num(0), Num(0))
\* high < max(open, close): the PricePoint invariant does not hold
BadRange == Point(Num(1000), Num(900), Num(800), Num(1000), Num(1))
NoClose == Point(Num(1000), Num(1100), Num(900), Missing, Num(3))
StrClose == Point(Num(1000), Num(1100), Num(900), Str, Num(3))
NullHigh == Point(Num(1000), Null, Num(900), Num(1000), Missing)

Items == {Good, ZeroClose, BadRange, NoClose, StrClose, NullHigh, NotADict}

SeqsFrom(S, m, n) == UNION {[1..k -> S] : k \in m..n}

Documents ==
    {Invalid, Scalar, ObjectNoData, EnvelopeOfScalar}
    \cup {Bare(s) : s \in SeqsFrom(Items, 0, MaxLen)}
    \cup {Envelope(s) : s \in SeqsFrom(Items, 0, MaxLen)}

(***************************************************************************)
(* Inputs of the closes family: well-formed series that differ in their    *)
(* closes, and the series 100, 101, ..., 109 of the spec's scenarios.      *)
(***************************************************************************)
CloseValues == {9999, 10000, 10001, 11000, 13000}

ClosePoint(c) == Point(Num(c), Num(c), Num(c), Num(c), Num(1))

CloseSeries(ys) == [i \in 1..Len(ys) |-> ClosePoint(ys[i])]

ScenarioCloses == [i \in 1..10 |-> (99 + i) * Cents]

CloseDocuments ==
    {Bare(CloseSeries(ys)) : ys \in SeqsFrom(CloseValues, 1, MaxCloses)}
    \cup {Bare(CloseSeries(ScenarioCloses)), Envelope(CloseSeries(ScenarioCloses))}

(***************************************************************************)
(* Inputs of the levels family: a first point, a run of equal filler       *)
(* points and a last point, so that series shorter and longer than the     *)
(* ten-point window occur.  A point is <<low, high, close>>.               *)
(***************************************************************************)
LevelShapes ==
    {<<9900, 10100, 10000>>,     \* low <= close <= high
     <<9800, 10200, 10000>>,     \* a wider range
     <<10200, 10300, 10250>>,    \* low <= close <= high, above the others
     <<9700, 9800, 9750>>,       \* low <= close <= high, below the others
     <<10000, 10000, 10000>>,    \* low = close = high
     <<9950, 10050, 10150>>,     \* close above its own high
     <<9950, 10050, 9850>>,      \* close below its own low
     <<10100, 9900, 10000>>}     \* low above high

LevelPoint(s) == Point(Num(s[3]), Num(s[2]), Num(s[1]), Num(s[3]), Num(1))

LevelSeries(first, fill, k, last) ==
    <<LevelPoint(first)>> \o [i \in 1..k |-> LevelPoint(fill)] \o <<LevelPoint(last)>>

LevelDocuments ==
    {Bare(<<LevelPoint(s)>>) : s \in LevelShapes}
    \cup {Bare(LevelSeries(first, fill, k, last)) :
            first \in LevelShapes, fill \in LevelShapes,
            k \in 0..MaxFill, last \in LevelShapes}

(***************************************************************************)
(* Inputs of the explainer family: series that differ in close and         *)
(* volume, each point ranging 0.50 either side of its close; and the       *)
(* spec's volume scenario (its volumes in thousands: only their ratio      *)
(* enters the result).                                                     *)
(***************************************************************************)
ExplainShapes ==
    ({10000, 10300} \X {0, 1, 7, 11}) \cup {<<10150, 1>>}

ExplainPoint(s) == Point(Num(s[1]), Num(s[1] + 50), Num(s[1] - 50), Num(s[1]), Num(s[2]))

ExplainSeries(ss) == [i \in 1..Len(ss) |-> ExplainPoint(ss[i])]

ScenarioVolumes ==
    <<<<10000, 1500>>, <<10000, 1500>>, <<10150, 1500>>, <<10150, 1500>>, <<10300, 9000>>>>

ExplainDocuments ==
    {Bare(ExplainSeries(ss)) : ss \in SeqsFrom(ExplainShapes, 1, MaxExplain)}
    \cup {Bare(ExplainSeries(ScenarioVolumes))}

(***************************************************************************)
(* The parameters tried: the defaults of the code and a small range that   *)
(* includes 0 and a negative value.                                        *)
(***************************************************************************)
DefaultWindow == 7
DefaultForecastDays == 5
DefaultDaysBack == 5

Windows == (-1..MaxParam) \cup {DefaultWindow}
ForecastDays == (-1..MaxParam) \cup {DefaultForecastDays}
DaysBack == (-1..MaxParam) \cup {DefaultDaysBack}

NoResult == [status |-> "none"]

(***************************************************************************)
(* One behaviour is one call: the caller holds a document, applies one     *)
(* transform to it and reads the result.  A transform changes nothing but  *)
(* its own result.                                                         *)
(***************************************************************************)
Fresh ==
    /\ tool = "none"
    /\ param = 0
    /\ result = NoResult

Init == prices \in Documents /\ Fresh

InitCloses == prices \in CloseDocuments /\ Fresh

InitLevels == prices \in LevelDocuments /\ Fresh

InitExplain == prices \in ExplainDocuments /\ Fresh

CalculateMovingAverage ==
    \E window \in Windows :
        /\ tool = "none"
        /\ tool' = "calculate_moving_average"
        /\ param' = window
        /\ result' = calculate_moving_average(prices, window)
        /\ UNCHANGED prices

CalculateVolatility ==
    /\ tool = "none"
    /\ tool' = "calculate_volatility"
    /\ param' = 0
    /\ result' = calculate_volatility(prices)
    /\ UNCHANGED prices

PredictTrend ==
    \E forecast_days \in ForecastDays :
        /\ tool = "none"
        /\ tool' = "predict_trend"
        /\ param' = forecast_days
        /\ result' = predict_trend(prices, forecast_days)
        /\ UNCHANGED prices

AnalyzeSupportResistance ==
    /\ tool = "none"
    /\ tool' = "analyze_support_resistance"
    /\ param' = 0
    /\ result' = analyze_support_resistance(prices)
    /\ UNCHANGED prices

AnalyzePriceMovement ==
    \E days_back \in DaysBack :
        /\ tool = "none"
        /\ tool' = "analyze_price_movement"
        /\ param' = days_back
        /\ result' = analyze_price_movement(prices, days_back)
        /\ UNCHANGED prices

Next ==
    \/ CalculateMovingAverage
    \/ CalculateVolatility
    \/ PredictTrend
    \/ AnalyzeSupportResistance
    \/ AnalyzePriceMovement

Spec == Init /\ [][Next]_vars

SpecCloses == InitCloses /\ [][Next]_vars

SpecLevels == InitLevels /\ [][Next]_vars

SpecExplain == InitExplain /\ [][Next]_vars

(***************************************************************************)
(* What the claims speak about: the record sequence of a document, and     *)
(* the result of a transform on another document.                          *)
(***************************************************************************)
IsSeries(p) == p.kind = "list" \/ (p.kind = "object" /\ p.hasdata /\ p.inner = "list")

Called == tool # "none"

Succeeded(name) == tool = name /\ result.status = "success"

ClosesOf(p) == [i \in 1..Len(p.items) |-> p.items[i].close.v]

Apply(name, p, x) ==
    CASE name = "calculate_moving_average" -> calculate_moving_average(p, x)
      [] name = "calculate_volatility" -> calculate_volatility(p)
      [] name = "predict_trend" -> predict_trend(p, x)
      [] name = "analyze_support_resistance" -> analyze_support_resistance(p)
      [] name = "analyze_price_movement" -> analyze_price_movement(p, x)

(***************************************************************************)
(* C1.  Whatever the document and the parameter, each of the five          *)
(* transforms returns a result whose status is "success" or "failed", a    *)
(* failed result carries a non-empty error message, and no exception       *)
(* leaves the call.                                                        *)
(***************************************************************************)
StatusContract ==
    Called =>
        /\ result.status \in {"success", "failed"}
        /\ result.status = "failed" =>
              "error" \in DOMAIN result /\ result.error # ""

\* a division by zero inside analyze_price_movement came back as a failed result
StatusContractWitness ==
    /\ tool = "analyze_price_movement"
    /\ prices = Bare(<<ZeroClose, Good>>)
    /\ result.status = "failed"
    /\ result.error = DivisionByZero

(***************************************************************************)
(* C2.  For a record sequence shorter than window >= 1 (the empty one      *)
(* included), calculate_moving_average returns a failed result without a   *)
(* trend; when every record has its close, the error is the                *)
(* not-enough-data message.                                                *)
(***************************************************************************)
ShortSeriesFails ==
    (tool = "calculate_moving_average" /\ IsSeries(prices)
       /\ param >= 1 /\ Len(prices.items) < param) =>
        /\ result.status = "failed"
        /\ "trend" \notin DOMAIN result
        /\ ~Column(Unwrap(prices), "close").raised =>
              result.error = "Not enough data points"

\* two well-formed records against a window of three
ShortSeriesFailsWitness ==
    /\ tool = "calculate_moving_average"
    /\ prices = Envelope(<<Good, BadRange>>)
    /\ param = 3
    /\ result.status = "failed"

(***************************************************************************)
(* C3.  For len(series) >= window >= 1, the trend is BULLISH exactly when  *)
(* the latest close is strictly greater than the simple moving average of  *)
(* the last `window` closes, and BEARISH otherwise.  Left out are the      *)
(* series whose average lies exactly halfway between two cents, where the  *)
(* rounding error of the double decides the rounded average.  The code     *)
(* compares with the average rounded to cents, and this fails.             *)
(***************************************************************************)
AverageIsHalfway(closes, window) ==
    2 * (Sum(PyTail(closes, window)) % window) = window

TrendFollowsAverage ==
    (Succeeded("calculate_moving_average") /\ param >= 1
       /\ ~AverageIsHalfway(ClosesOf(prices), param)) =>
        LET closes == ClosesOf(prices)
            above == closes[Len(closes)] * param > Sum(PyTail(closes, param))
        IN  /\ result.trend = (IF above THEN "BULLISH" ELSE "BEARISH")
            /\ (prices.items = CloseSeries(ScenarioCloses) /\ param = DefaultWindow) =>
                  result.average_price = 106 * Cents /\ result.trend = "BULLISH"

(***************************************************************************)
(* C4.  As claimed: for strictly increasing closes (two or more) and       *)
(* forecast_days >= 1, predict_trend returns direction UP and a            *)
(* predicted_price at or above the last close.  Left out are forecasts     *)
(* exactly halfway between two cents.  This fails: closes 1, 2, 3, 4, 11   *)
(* are forecast 10.80 one day ahead.                                       *)
(***************************************************************************)
StrictlyIncreasing(ys) == \A i \in 1..(Len(ys) - 1) : ys[i] < ys[i + 1]

ForecastIsHalfway(ys, i) ==
    LET f == ForecastFraction(ys, i)
    IN  2 * (f[1] % f[2]) = f[2]

IncreasingCase ==
    /\ tool = "predict_trend"
    /\ param >= 1
    /\ Len(prices.items) >= 2
    /\ StrictlyIncreasing(ClosesOf(prices))

VarianceTimesSquare(ys) ==
    LET n == Len(ys)
        d == [i \in 1..n |-> ys[i] - ys[1]]
    IN  n * Sum([i \in 1..n |-> d[i] * d[i]]) - Sum(d) * Sum(d)

DeviationBelow(ys, limit) ==
    VarianceTimesSquare(ys) < limit * limit * Cents * Cents * Len(ys) * Len(ys)

RiskTierByDeviation ==
    tool = "calculate_volatility" =>
        LET ys == ClosesOf(prices)
        IN  /\ result.status = "success"
            /\ DeviationBelow(ys, 5) => result.risk_level = "LOW"
            /\ (~DeviationBelow(ys, 5) /\ DeviationBelow(ys, 15)) =>
                  result.risk_level = "MEDIUM"
            /\ ~DeviationBelow(ys, 15) => result.risk_level = "HIGH"
            /\ (\A i \in 1..Len(ys) : ys[i] = ys[1]) =>
                  VarianceTimesSquare(ys) = 0 /\ result.risk_level = "LOW"

\* closes 100.00 and 110.00: the deviation is exactly 5
RiskTierByDeviationWitness ==
    /\ tool = "calculate_volatility"
    /\ ClosesOf(prices) = <<10000, 11000>>
    /\ result.risk_level = "MEDIUM"

(***************************************************************************)
(* C6.  In a successful analyze_price_movement result the explanations     *)
(* are in non-increasing order of confidence, explanations of equal        *)
(* confidence are in generation order (volume-driven, news event,          *)
(* support/resistance reaction), and every confidence is an integer in     *)
(* 0..100.                                                                 *)
(***************************************************************************)
GenerationOrder(title) ==
    CASE title \in {"Bullish Volume Surge", "Panic Selling / Distribution"} -> 1
      [] title = "News Event / Earnings" -> 2
      [] title \in {"Support Bounce", "Resistance Rejection", "Range-bound Movement"} -> 3

ExplanationsSorted ==
    Succeeded("analyze_price_movement") =>
        LET a == result.alibis
        IN  /\ \A i \in 1..Len(a) : a[i].confidence \in 0..100
            /\ \A i \in 1..Len(a) : \A j \in (i + 1)..Len(a) :
                  /\ a[i].confidence >= a[j].confidence
                  /\ a[i].confidence = a[j].confidence =>
                        GenerationOrder(a[i].title) < GenerationOrder(a[j].title)

\* three explanations, the first two of equal confidence
ExplanationsSortedWitness ==
    /\ Succeeded("analyze_price_movement")
    /\ Len(result.alibis) = 3
    /\ result.alibis[1].confidence = result.alibis[2].confidence
    /\ result.alibis[2].confidence > result.alibis[3].confidence

(***************************************************************************)
(* C7.  For a non-empty series analyze_support_resistance succeeds; over   *)
(* the last 10 points (all of them if fewer) floor_price is the minimum    *)
(* of the 3 lowest distinct lows and ceiling_price the maximum of the 3    *)
(* highest distinct highs; the signal is BUY when the current close is     *)
(* below the floor, otherwise SELL when it is above the ceiling,           *)
(* otherwise HOLD.                                                         *)
(***************************************************************************)
LastTen(p) == {i \in 1..Len(p.items) : i > Len(p.items) - 10}

Lowest3(S) == {x \in S : Cardinality({y \in S : y < x}) < 3}

Highest3(S) == {x \in S : Cardinality({y \in S : y > x}) < 3}

SetMin(S) == CHOOSE x \in S : \A y \in S : x <= y

SetMax(S) == CHOOSE x \in S : \A y \in S : x >= y

LevelSignal ==
    tool = "analyze_support_resistance" =>
        LET floor == SetMin(Lowest3({prices.items[i].low.v : i \in LastTen(prices)}))
            ceiling == SetMax(Highest3({prices.items[i].high.v : i \in LastTen(prices)}))
            current == prices.items[Len(prices.items)].close.v
        IN  /\ result.status = "success"
            /\ result.floor_price = floor
            /\ result.ceiling_price = ceiling
            /\ result.current_price = current
            /\ current < floor => result.signal = "BUY"
            /\ (current >= floor /\ current > ceiling) => result.signal = "SELL"
            /\ (current >= floor /\ current <= ceiling) => result.signal = "HOLD"

\* more than ten points, and the first has a low below the floor of the last ten
LevelSignalWitness ==
    /\ Succeeded("analyze_support_resistance")
    /\ Len(prices.items) > 10
    /\ prices.items[1].low.v < result.floor_price
    /\ result.signal = "BUY"

(***************************************************************************)
(* C8.  Each transform returns the same result for a bare record sequence  *)
(* and for the same sequence in an envelope, whatever the parameter.       *)
(***************************************************************************)
EnvelopeEquivalence ==
    (Called /\ IsSeries(prices)) =>
        /\ result = Apply(tool, Bare(prices.items), param)
        /\ result = Apply(tool, Envelope(prices.items), param)

\* a transform succeeded on an enveloped sequence
EnvelopeEquivalenceWitness ==
    /\ Called
    /\ prices = Envelope(<<Good, Good>>)
    /\ result.status = "success"

(***************************************************************************)
(* C9.  With the spike ratio max(volume) / avg(volume) over the trailing   *)
(* window (1 if the average is 0), the volume-driven explanation is        *)
(* emitted exactly when the ratio is above 1.5, its confidence is          *)
(* min(85, floor(ratio * 30)), it is the bullish surge exactly when the    *)
(* price change of the window is positive and the panic-selling one        *)
(* exactly when it is negative; with ratio 3.0 and a positive price        *)
(* change it has confidence 85 and is first.  The code gives the           *)
(* panic-selling one for a price change of zero, and this fails.           *)
(***************************************************************************)
WindowOfDays(p, days_back) ==
    LET n == Len(p.items)
    IN  IF days_back >= 1 /\ days_back <= n
        THEN [i \in 1..days_back |-> p.items[n - days_back + i]]
        ELSE p.items

VolumeDriven(a) == {i \in 1..Len(a) : GenerationOrder(a[i].title) = 1}

VolumeExplanation ==
    (Succeeded("analyze_price_movement") /\ param >= 1) =>
        LET w == WindowOfDays(prices, param)
            n == Len(w)
            total == Sum([i \in 1..n |-> w[i].volume.v])
            peak == SetMax({w[i].volume.v : i \in 1..n})
            change == w[n].close.v - w[1].close.v
            a == result.alibis
            above == total > 0 /\ 2 * peak * n > 3 * total
        IN  /\ VolumeDriven(a) # {} <=> above
            /\ \A i \in VolumeDriven(a) :
                  /\ a[i].confidence = Min2(85, (30 * peak * n) \div total)
                  /\ a[i].title = "Bullish Volume Surge" <=> change > 0
                  /\ a[i].title = "Panic Selling / Distribution" <=> change < 0
            /\ (total > 0 /\ peak * n = 3 * total /\ change > 0) =>
                  a[1].title = "Bullish Volume Surge" /\ a[1].confidence = 85

(***************************************************************************)
(* C10.  A series with a point where high < max(open, close) or            *)
(* low > min(open, close) is rejected: no transform returns success for    *)
(* it.  The code never compares the fields of a point, and this fails.     *)
(***************************************************************************)
WellTyped(item) ==
    /\ item.isdict
    /\ \A key \in {"open", "high", "low", "close", "volume"} : IsNum(Field(item, key))

BreaksRange(item) ==
    /\ WellTyped(item)
    /\ \/ item.high.v < Max2(item.open.v, item.close.v)
       \/ item.low.v > Min2(item.open.v, item.close.v)

InvalidPointsRejected ==
    (Called /\ IsSeries(prices)
       /\ (param >= 1 \/ tool \in {"calculate_volatility", "analyze_support_resistance"})
       /\ \E i \in 1..Len(prices.items) : BreaksRange(prices.items[i])) =>
        result.status # "success"

(***************************************************************************)
(* C11.  In a successful analyze_price_movement result the rank field      *)
(* agrees with the order by confidence: an explanation with a smaller      *)
(* rank never has a strictly lower confidence than one with a larger       *)
(* rank.  The code writes the rank as the literal 1, 2 or 3 when it        *)
(* builds an explanation and sorts afterwards, and this fails.             *)
(***************************************************************************)
RankFollowsConfidence ==
    (Succeeded("analyze_price_movement") /\ param >= 1) =>
        LET a == result.alibis
        IN  \A i \in 1..Len(a) : \A j \in 1..Len(a) :
                a[i].rank < a[j].rank => a[i].confidence >= a[j].confidence

(***************************************************************************)
(* C12.  For a non-empty series in which every point has                   *)
(* low <= close <= high, analyze_support_resistance succeeds with the      *)
(* signal HOLD and floor_price <= current_price <= ceiling_price: the      *)
(* current close is a close of the window the floor and the ceiling are    *)
(* taken from.                                                             *)
(***************************************************************************)
CloseInRange(item) == item.low.v <= item.close.v /\ item.close.v <= item.high.v

CloseWithinLevels ==
    (tool = "analyze_support_resistance"
       /\ \A i \in 1..Len(prices.items) : CloseInRange(prices.items[i])) =>
        /\ result.status = "success"
        /\ result.signal = "HOLD"
        /\ result.floor_price <= result.current_price
        /\ result.current_price <= result.ceiling_price

\* more than ten points, and the current close is above the high of every
\* other point of the window: only its own high keeps it under the ceiling
CloseWithinLevelsWitness ==
    /\ Succeeded("analyze_support_resistance")
    /\ \A i \in 1..Len(prices.items) : CloseInRange(prices.items[i])
    /\ Len(prices.items) > 10
    /\ \A i \in LastTen(prices) \ {Len(prices.items)} :
          prices.items[i].high.v < result.current_price
    /\ result.signal = "HOLD"

=============================================================================
